---- MODULE Spec2Model ----
(***************************************************************************)
(* Mip chain generation of Atrix256/STLCost (src/main.cpp).                *)
(*                                                                         *)
(* The program allocates one flat buffer of channel values per storage     *)
(* strategy (std::array, std::vector, C array), fills level 0 with a       *)
(* gradient (InitImage) and box-filters every further level from the one   *)
(* before it (MakeMips / MakeMip).                                         *)
(*                                                                         *)
(* Channel values are floats in the source.  Every value the program can   *)
(* produce within the bounds below is a dyadic rational with at most       *)
(* 2 * NumMips fractional bits and fewer than 24 significant bits, so      *)
(* float arithmetic is exact on them; a value v is represented by the      *)
(* integer v * Scale.  ExactArithmetic checks that no division by 4 ever   *)
(* truncates in this representation.                                       *)
(***************************************************************************)
EXTENDS Integers, Sequences, FiniteSets, TLC

\* ---- bounds of the model ----
MaxWidth == 8          \* IMAGE_SIZE() ranges over 1..MaxWidth
MaxInitRuns == 2       \* consecutive InitImage calls on one buffer

\* ---- program constants ----
NumTrials == 3         \* std::array, std::vector, c array

VARIABLES
    IMAGE_SIZE,   \* the compile-time base width
    trial,        \* 1 = std::array, 2 = std::vector, 3 = c array
    image,        \* the buffer: [0 .. TotalChannelsMipped-1 -> scaled value]
    pc,           \* "fresh", "inited", "loop" (MakeMips), "mip" (MakeMip), "done"
    mipCount,     \* MakeMips: local mipCount
    mipIndex,     \* MakeMips: loop variable, MakeMip: parameter
    srcOffset, srcWidth, destOffset, destWidth,   \* MakeMip locals
    destY, destX, channel,                        \* MakeMip loop variables
    writes,       \* history: indices written by the current MakeMip call, in order
    reads,        \* history: indices read by the current MakeMip call
    pre,          \* history: the buffer when the current MakeMip call began
    calls,        \* history: mipIndex of every MakeMip call of the current MakeMips
    oob,          \* history: some access fell outside the allocation
    initRuns,     \* history: number of consecutive InitImage calls
    initFrom      \* history: pc at which the first of these calls was made

vars == <<IMAGE_SIZE, trial, image, pc, mipCount, mipIndex, srcOffset, srcWidth,
          destOffset, destWidth, destY, destX, channel, writes, reads, pre,
          calls, oob, initRuns, initFrom>>

RECURSIVE TotalPixelsLoop(_, _)
TotalPixelsLoop(ret, size) ==
    IF size # 0 THEN TotalPixelsLoop(ret + size * size, size \div 2) ELSE ret

\* variant: the loop stops at size 1 and leaves out the 1x1 level
TotalPixelsMipped_StopAtOne == TotalPixelsLoop(0, IMAGE_SIZE) - 1

TotalPixelsMipped == TotalPixelsLoop(0, IMAGE_SIZE)

\* variant: RGB instead of RGBA
TotalChannelsMipped_RGB == TotalPixelsMipped * 3

TotalChannelsMipped == TotalPixelsMipped * 4

\* variant: while (size > 1)
RECURSIVE NumMipsLoop_StopAtOne(_, _)
NumMipsLoop_StopAtOne(ret, size) ==
    IF size > 1 THEN NumMipsLoop_StopAtOne(ret + 1, size \div 2) ELSE ret

RECURSIVE NumMipsLoop(_, _)
NumMipsLoop(ret, size) ==
    IF size # 0 THEN NumMipsLoop(ret + 1, size \div 2) ELSE ret

\* variant: the count starts at 1
NumMips_OffByOne == NumMipsLoop(1, IMAGE_SIZE)

NumMips == NumMipsLoop(0, IMAGE_SIZE)

\* variant: the offset advances by pixels, not by channels
RECURSIVE GetMipInfoLoop_Pixels(_, _, _, _)
GetMipInfoLoop_Pixels(k, desiredMipIndex, offset, width) ==
    IF k < desiredMipIndex
    THEN GetMipInfoLoop_Pixels(k + 1, desiredMipIndex, offset + width * width, width \div 2)
    ELSE [offset |-> offset, width |-> width]

RECURSIVE GetMipInfoLoop(_, _, _, _)
GetMipInfoLoop(k, desiredMipIndex, offset, width) ==
    IF k < desiredMipIndex
    THEN GetMipInfoLoop(k + 1, desiredMipIndex, offset + width * width * 4, width \div 2)
    ELSE [offset |-> offset, width |-> width]

GetMipInfo(desiredMipIndex) == GetMipInfoLoop(0, desiredMipIndex, 0, IMAGE_SIZE)

\* ---- representation of ChannelType (float) ----
RECURSIVE Pow(_, _)
Pow(b, e) == IF e = 0 THEN 1 ELSE b * Pow(b, e - 1)

Scale == Pow(4, NumMipsLoop(0, MaxWidth))

ChannelType(n) == n * Scale

\* what uninitialised storage may hold
Indeterminate == {ChannelType(0), ChannelType(7)}

Allocation == 0 .. (TotalChannelsMipped - 1)

\* new std::array / malloc leave the storage indeterminate (it may also be the
\* storage a previous trial released); vector::resize value-initialises it.
FreshBuffers(t, old) ==
    IF t = 2
    THEN {[i \in Allocation |-> ChannelType(0)]}
    ELSE {[i \in Allocation |-> g] : g \in Indeterminate}
         \cup {[i \in Allocation |-> ChannelType(i % 3)]}
         \cup (IF DOMAIN old = Allocation THEN {old} ELSE {})

Init ==
    /\ IMAGE_SIZE \in 1 .. MaxWidth
    /\ trial = 1
    /\ image \in FreshBuffers(1, << >>)
    /\ pc = "fresh"
    /\ mipCount = 0 /\ mipIndex = 0
    /\ srcOffset = 0 /\ srcWidth = 0 /\ destOffset = 0 /\ destWidth = 0
    /\ destY = 0 /\ destX = 0 /\ channel = 0
    /\ writes = << >> /\ reads = {} /\ pre = image
    /\ calls = << >> /\ oob = FALSE /\ initRuns = 0 /\ initFrom = "none"

\* ---- InitImage ----
Store(img, idx, v) == IF idx \in DOMAIN img THEN [img EXCEPT ![idx] = v] ELSE img

\* variant: the buffer is not cleared
memset_Skipped(img) == img

memset(img) == [k \in DOMAIN img |-> ChannelType(0)]

\* the four stores of the inner loop body for pixel number i at column x, row y
InitImagePixel(img, x, y, i) ==
    Store(Store(Store(Store(img, i * 4 + 0, ChannelType(x % 256)),
                      i * 4 + 1, ChannelType(y % 256)),
                i * 4 + 2, ChannelType(0)),
          i * 4 + 3, ChannelType(255))

\* for (x = 0; x < IMAGE_SIZE(); ++x) { ...; i++ }
RECURSIVE InitImageRow(_, _, _, _)
InitImageRow(img, y, x, i) ==
    IF x < IMAGE_SIZE
    THEN LET next == InitImagePixel(img, x, y, i)
         \* (the test only forces the stores of this iteration to be evaluated)
         IN IF DOMAIN next = DOMAIN img THEN InitImageRow(next, y, x + 1, i + 1) ELSE next
    ELSE img

\* for (y = 0; y < IMAGE_SIZE(); ++y), with i the running pixel counter
RECURSIVE InitImageLoop(_, _, _)
InitImageLoop(img, y, i) ==
    IF y < IMAGE_SIZE
    THEN LET next == InitImageRow(img, y, 0, i)
         IN IF DOMAIN next = DOMAIN img THEN InitImageLoop(next, y + 1, i + IMAGE_SIZE) ELSE next
    ELSE img

InitImageResult(img) == InitImageLoop(memset(img), 0, 0)

InitImageTouched ==
    (0 .. (TotalChannelsMipped - 1))
    \cup {i * 4 + c : i \in 0 .. (IMAGE_SIZE * IMAGE_SIZE - 1), c \in 0 .. 3}

InitImage ==
    /\ pc \in {"fresh", "inited", "done"}
    /\ initRuns < MaxInitRuns
    /\ image' = InitImageResult(image)
    /\ oob' = (oob \/ \E idx \in InitImageTouched : idx \notin DOMAIN image)
    /\ initRuns' = initRuns + 1
    /\ initFrom' = (IF initRuns = 0 THEN pc ELSE initFrom)
    /\ pc' = "inited"
    /\ UNCHANGED <<IMAGE_SIZE, trial, mipCount, mipIndex, srcOffset, srcWidth,
                   destOffset, destWidth, destY, destX, channel, writes, reads,
                   pre, calls>>

\* ---- MakeMips ----
\* variant: the loop starts at level 2
MakeMipsFirstIndex_Two == 1 + 1

MakeMipsFirstIndex == 1

MakeMipsBegin ==
    /\ pc = "inited"
    /\ mipCount' = NumMips
    /\ mipIndex' = MakeMipsFirstIndex
    /\ calls' = << >>
    /\ initRuns' = 0
    /\ pc' = "loop"
    /\ UNCHANGED <<IMAGE_SIZE, trial, image, srcOffset, srcWidth, destOffset,
                   destWidth, destY, destX, channel, writes, reads, pre, oob,
                   initFrom>>

\* the loop test succeeds: MakeMip(image, mipIndex) is entered
MakeMipCall ==
    /\ pc = "loop"
    /\ mipIndex < mipCount
    /\ srcOffset' = GetMipInfo(mipIndex - 1).offset
    /\ srcWidth' = GetMipInfo(mipIndex - 1).width
    /\ destOffset' = GetMipInfo(mipIndex).offset
    /\ destWidth' = GetMipInfo(mipIndex).width
    /\ destY' = 0 /\ destX' = 0 /\ channel' = 0
    /\ writes' = << >> /\ reads' = {} /\ pre' = image
    /\ calls' = Append(calls, mipIndex)
    /\ pc' = "mip"
    /\ UNCHANGED <<IMAGE_SIZE, trial, image, mipCount, mipIndex, oob, initRuns,
                   initFrom>>

\* variant: the source level's offset is left out
SrcIndex_NoOffset(dy, dx) == ((destY * 2 + dy) * srcWidth + destX * 2 + dx) * 4

SrcIndex(dy, dx) == ((destY * 2 + dy) * srcWidth + destX * 2 + dx) * 4 + srcOffset

SrcIndices == {SrcIndex(dy, dx) : dy \in 0 .. 1, dx \in 0 .. 1}

Load(idx, g) == IF idx \in DOMAIN image THEN image[idx] ELSE g

\* float(image[..] + channel) summed over the 2x2 block
BoxSum(g) ==
    (Load(SrcIndex(0, 0), g) + ChannelType(channel)) +
    (Load(SrcIndex(0, 1), g) + ChannelType(channel)) +
    (Load(SrcIndex(1, 0), g) + ChannelType(channel)) +
    (Load(SrcIndex(1, 1), g) + ChannelType(channel))

NextDestOffset == destOffset + 1

\* one iteration of the innermost loop body, and the loop control after it
MakeMipStep ==
    /\ pc = "mip"
    /\ destY < destWidth
    /\ \E g \in Indeterminate :
         image' = Store(image, destOffset, BoxSum(g) \div 4)
    /\ oob' = (oob \/ destOffset \notin DOMAIN image
                   \/ \E idx \in SrcIndices : idx \notin DOMAIN image)
    /\ reads' = reads \cup SrcIndices
    /\ writes' = Append(writes, destOffset)
    /\ destOffset' = NextDestOffset
    /\ IF channel + 1 < 4
       THEN /\ channel' = channel + 1
            /\ UNCHANGED <<destX, destY>>
       ELSE /\ channel' = 0
            /\ IF destX + 1 < destWidth
               THEN destX' = destX + 1 /\ UNCHANGED destY
               ELSE destX' = 0 /\ destY' = destY + 1
    /\ UNCHANGED <<IMAGE_SIZE, trial, pc, mipCount, mipIndex, srcOffset, srcWidth,
                   destWidth, pre, calls, initRuns, initFrom>>

\* the outer loop of MakeMip is over: return to MakeMips, ++mipIndex
MakeMipReturn ==
    /\ pc = "mip"
    /\ ~(destY < destWidth)
    /\ mipIndex' = mipIndex + 1
    /\ pc' = "loop"
    /\ UNCHANGED <<IMAGE_SIZE, trial, image, mipCount, srcOffset, srcWidth,
                   destOffset, destWidth, destY, destX, channel, writes, reads,
                   pre, calls, oob, initRuns, initFrom>>

MakeMipsReturn ==
    /\ pc = "loop"
    /\ ~(mipIndex < mipCount)
    /\ pc' = "done"
    /\ UNCHANGED <<IMAGE_SIZE, trial, image, mipCount, mipIndex, srcOffset,
                   srcWidth, destOffset, destWidth, destY, destX, channel, writes,
                   reads, pre, calls, oob, initRuns, initFrom>>

\* main: the buffer of one trial is released and the next trial allocates its own
NextTrial ==
    /\ pc = "done"
    /\ trial < NumTrials
    /\ trial' = trial + 1
    /\ image' \in FreshBuffers(trial + 1, image)
    /\ pc' = "fresh"
    /\ initRuns' = 0
    /\ initFrom' = "none"
    /\ UNCHANGED <<IMAGE_SIZE, mipCount, mipIndex, srcOffset, srcWidth, destOffset,
                   destWidth, destY, destX, channel, writes, reads, pre, calls, oob>>

Next ==
    \/ InitImage
    \/ MakeMipsBegin
    \/ MakeMipCall
    \/ MakeMipStep
    \/ MakeMipReturn
    \/ MakeMipsReturn
    \/ NextTrial

Spec == Init /\ [][Next]_vars

\* MakeMips is straight-line sequential code: once entered it keeps running
FairSpec ==
    Spec /\ WF_vars(MakeMipCall \/ MakeMipStep \/ MakeMipReturn \/ MakeMipsReturn)

TypeOK ==
    /\ IMAGE_SIZE \in 1 .. MaxWidth
    /\ trial \in 1 .. NumTrials
    /\ DOMAIN image = Allocation
    /\ pc \in {"fresh", "inited", "loop", "mip", "done"}

\* the scaled-integer representation never truncates a division
ExactArithmetic ==
    (pc = "mip" /\ destY < destWidth) => \A g \in Indeterminate : BoxSum(g) % 4 = 0

(***************************************************************************)
(* Properties                                                              *)
(***************************************************************************)
LevelOffset(t) == GetMipInfo(t).offset
LevelWidth(t) == GetMipInfo(t).width
LevelRegion(t) == LevelOffset(t) .. (LevelOffset(t) + LevelWidth(t) * LevelWidth(t) * 4 - 1)
Elem(t, x, y, c) == LevelOffset(t) + (y * LevelWidth(t) + x) * 4 + c

\* level t has been produced by a completed MakeMip(image, t)
LevelDone(t) ==
    \/ pc \in {"loop", "mip"} /\ t < mipIndex /\ t \in 1 .. Len(calls)
    \/ pc = "done" /\ t \in 1 .. Len(calls)

\* the four source values of destination pixel (x, y) of level t, channel c
SourceValues(t, x, y, c) ==
    << image[Elem(t - 1, 2 * x, 2 * y, c)], image[Elem(t - 1, 2 * x + 1, 2 * y, c)],
       image[Elem(t - 1, 2 * x, 2 * y + 1, c)], image[Elem(t - 1, 2 * x + 1, 2 * y + 1, c)] >>

\* C1: every channel c of every pixel of a generated level t >= 1 is the sum
\* divided by 4 of channel c of the four source pixels of level t-1.
C1_BoxFilterAverage ==
    \A t \in 1 .. (NumMips - 1) : LevelDone(t) =>
        \A x \in 0 .. (LevelWidth(t) - 1), y \in 0 .. (LevelWidth(t) - 1), c \in 0 .. 3 :
            LET v == SourceValues(t, x, y, c)
            IN 4 * image[Elem(t, x, y, c)] = v[1] + v[2] + v[3] + v[4]

\* C2: if the four source pixels hold the same value V in channel c, the
\* destination pixel's channel c is exactly V.
C2_ConstantReproduced ==
    \A t \in 1 .. (NumMips - 1) : LevelDone(t) =>
        \A x \in 0 .. (LevelWidth(t) - 1), y \in 0 .. (LevelWidth(t) - 1), c \in 0 .. 3 :
            LET v == SourceValues(t, x, y, c)
            IN (v[1] = v[2] /\ v[2] = v[3] /\ v[3] = v[4]) => image[Elem(t, x, y, c)] = v[1]

MaxLevelIndex == 6     \* level indices examined by C3, beyond the chain's end

\* C3: GetMipInfo(0) = (0, W), and for every i the level i+1 begins where
\* level i ends and has half its width (truncated).
C3_Contiguous ==
    /\ GetMipInfo(0) = [offset |-> 0, width |-> IMAGE_SIZE]
    /\ \A i \in 0 .. MaxLevelIndex :
         /\ GetMipInfo(i).offset + GetMipInfo(i).width * GetMipInfo(i).width * 4
              = GetMipInfo(i + 1).offset
         /\ GetMipInfo(i + 1).width = GetMipInfo(i).width \div 2

C3_Witness ==
    /\ pc = "mip" /\ mipIndex = 3 /\ Len(writes) = 2
    /\ srcOffset = LevelOffset(2) /\ destOffset = LevelOffset(3) + 2

IsPowerOfTwo(w) == \E k \in 0 .. MaxWidth : Pow(2, k) = w
Log2(w) == CHOOSE k \in 0 .. MaxWidth : Pow(2, k) = w
RECURSIVE SumLevels(_, _)
SumLevels(w, k) ==
    (w \div Pow(2, k)) * (w \div Pow(2, k)) * 4 + (IF k = 0 THEN 0 ELSE SumLevels(w, k - 1))

\* C4: for a power-of-two W the buffer size is the sum over k = 0..log2(W) of
\* (W/2^k)^2 * 4 and is where level NumMips() would begin; W = 4 gives 84.
C4_TotalSize ==
    IsPowerOfTwo(IMAGE_SIZE) =>
        /\ TotalChannelsMipped = SumLevels(IMAGE_SIZE, Log2(IMAGE_SIZE))
        /\ GetMipInfo(NumMips).offset = TotalChannelsMipped
        /\ IMAGE_SIZE = 4 =>
             /\ TotalChannelsMipped = 84
             /\ NumMips = 3
             /\ <<LevelWidth(0), LevelWidth(1), LevelWidth(2)>> = <<4, 2, 1>>

C4_Witness ==
    IMAGE_SIZE = 4 /\ pc = "done" /\ destOffset = 84 /\ Len(writes) = 4

CeilLog2(w) == CHOOSE k \in 0 .. MaxWidth : Pow(2, k) >= w /\ (k = 0 \/ Pow(2, k - 1) < w)
FloorLog2(w) == CHOOSE k \in 0 .. MaxWidth : Pow(2, k) <= w /\ w < Pow(2, k + 1)

\* C5 as stated: for every W the chain length is ceil(log2(W)) + 1 and the
\* last level has width 1.
C5_CeilLog2 ==
    /\ NumMips = CeilLog2(IMAGE_SIZE) + 1
    /\ LevelWidth(NumMips - 1) = 1

\* C5 amended: for every W the chain length is floor(log2(W)) + 1 and the
\* last level has width 1.
C5_FloorLog2 ==
    /\ NumMips = FloorLog2(IMAGE_SIZE) + 1
    /\ LevelWidth(NumMips - 1) = 1

C5_Witness ==
    /\ ~IsPowerOfTwo(IMAGE_SIZE) /\ IMAGE_SIZE = 5
    /\ pc = "done" /\ mipCount = 3 /\ calls = <<1, 2>>

\* C6: with base width 1 there is one level, MakeMips runs no MakeMip, and
\* the buffer is the pixel (0, 0, 0, 255) from InitImage on, through MakeMips.
C6_SinglePixel ==
    IMAGE_SIZE = 1 =>
        /\ NumMips = 1
        /\ pc # "mip" /\ (pc \in {"loop", "done"} => calls = << >>)
        /\ pc \in {"inited", "loop", "done"} =>
             image = [i \in 0 .. 3 |-> IF i = 3 THEN ChannelType(255) ELSE ChannelType(0)]

C6_Witness == IMAGE_SIZE = 1 /\ pc = "done" /\ mipCount = 1 /\ mipIndex = 1

\* the buffer InitImage is specified to produce
GradientBuffer ==
    [i \in Allocation |->
        IF i < IMAGE_SIZE * IMAGE_SIZE * 4
        THEN LET x == (i \div 4) % IMAGE_SIZE
                 y == (i \div 4) \div IMAGE_SIZE
             IN CASE i % 4 = 0 -> ChannelType(x % 256)
                  [] i % 4 = 1 -> ChannelType(y % 256)
                  [] i % 4 = 2 -> ChannelType(0)
                  [] OTHER -> ChannelType(255)
        ELSE ChannelType(0)]

\* C7: whatever the buffer held, after one InitImage and after two in a row
\* level 0 holds the gradient and every element of the other levels is zero.
C7_InitImage ==
    pc = "inited" => image = GradientBuffer /\ InitImageResult(image) = image

C7_Witness ==
    pc = "inited" /\ initRuns = 2 /\ initFrom = "done" /\ IMAGE_SIZE >= 4

\* C8: a MakeMip call for level t writes the target region's elements in
\* increasing order, each once, ending at offset(t+1); reads only the source
\* level's region; leaves every element outside the target region as it was.
C8_Frame ==
    /\ pc = "mip" =>
         /\ mipIndex >= 1 /\ mipIndex < NumMips
         /\ writes = [k \in 1 .. Len(writes) |-> LevelOffset(mipIndex) + k - 1]
         /\ destOffset = LevelOffset(mipIndex) + Len(writes)
         /\ Len(writes) <= LevelWidth(mipIndex) * LevelWidth(mipIndex) * 4
         /\ ~(destY < destWidth) =>
              /\ Len(writes) = LevelWidth(mipIndex) * LevelWidth(mipIndex) * 4
              /\ destOffset = LevelOffset(mipIndex + 1)
         /\ reads \subseteq LevelRegion(mipIndex - 1)
         /\ \A i \in DOMAIN image : i \notin LevelRegion(mipIndex) => image[i] = pre[i]
    /\ (pc = "loop" /\ calls # << >>) =>
         /\ Len(writes) = LevelWidth(mipIndex - 1) * LevelWidth(mipIndex - 1) * 4
         /\ \A i \in DOMAIN image : i \notin LevelRegion(mipIndex - 1) => image[i] = pre[i]

C8_Witness ==
    /\ pc = "mip" /\ mipIndex = 2 /\ ~(destY < destWidth)
    /\ Len(writes) = 16 /\ Cardinality(reads) = 16
    /\ \E i \in LevelRegion(2) : image[i] # pre[i]

\* the calls MakeMips has made so far are 1, 2, ..., n
CallsUpTo(n) == calls = [k \in 1 .. n |-> k]

C9_Order ==
    /\ pc = "loop" => CallsUpTo(mipIndex - 1)
    /\ pc = "mip" => CallsUpTo(mipIndex)
    /\ pc = "done" => CallsUpTo(NumMips - 1) /\ LevelWidth(Len(calls)) = 1

C9_Frozen ==
    (pc \in {"loop", "mip"} /\ pc' \in {"loop", "mip", "done"}) =>
        /\ mipIndex' >= mipIndex
        /\ \A i \in DOMAIN image : i < LevelOffset(mipIndex) => image'[i] = image[i]

\* C9: MakeMips calls MakeMip for 1, 2, ..., NumMips()-1 in this order, once
\* each; from the moment the step for level k may begin no element of a lower
\* level changes; and the loop finishes, right after the level of width 1.
C9_Sequential ==
    /\ []C9_Order
    /\ [][C9_Frozen]_vars
    /\ (pc = "loop") ~> (pc = "done")

C9_Witness ==
    pc = "done" /\ calls = <<1, 2, 3>> /\ LevelWidth(3) = 1 /\ image # pre

\* C10: every index InitImage and MakeMips touch lies inside the allocation
\* of TotalChannelsMipped() elements; the source coordinates stay below the
\* source width; MakeMip never runs for level 0 or for a level of width 0.
C10_MemorySafe ==
    /\ oob = FALSE
    /\ DOMAIN image = 0 .. (TotalChannelsMipped - 1)
    /\ InitImageTouched \subseteq DOMAIN image
    /\ pc = "mip" =>
         /\ mipIndex >= 1 /\ destWidth > 0
         /\ destY < destWidth =>
              /\ 2 * destX + 1 < srcWidth /\ 2 * destY + 1 < srcWidth
              /\ SrcIndices \subseteq DOMAIN image
              /\ destOffset \in DOMAIN image

C10_Witness ==
    /\ pc = "done" /\ IMAGE_SIZE = 7 /\ calls = <<1, 2>>
    /\ Len(writes) = 4 /\ destOffset = TotalChannelsMipped /\ oob = FALSE
====
